---- MODULE Spec2Model ----
(***************************************************************************)
(* LastValueAggregator (opentelemetry-sdk/src/metrics/aggregators/         *)
(* last_value.rs): a Mutex<Inner> holding Option<LastValueData>, with the  *)
(* operations update, synchronized_move, merge and last_value run by       *)
(* parallel threads.  Every Mutex::lock call and every store into a        *)
(* guarded slot is a step of its own, so that mutual exclusion is what the *)
(* properties rest on, not the size of a step.  The guards of one call are *)
(* dropped in one step: dropping a guard never blocks.                     *)
(***************************************************************************)
EXTENDS Integers, FiniteSets, Sequences, TLC

\* Bounds of the model.
MaxValue == 2
MaxTime == 2
MaxShards == 3

Values == 1..MaxValue
Timestamps == 1..MaxTime

\* The threads calling into the aggregators.
Threads == {"t1", "t2"}

\* Two LastValueAggregator instances and one aggregator of another kind.
Cells == {"A", "B"}
Foreign == "X"
Peers == Cells \cup {Foreign}

\* Option<SystemTime> carried by the Context: 0 is None.
NoTs == 0

\* Option<LastValueData>: Inner::default() is None.
None == [some |-> FALSE, value |-> 0, timestamp |-> 0]

LastValueData(v, t) == [some |-> TRUE, value |-> v, timestamp |-> t]

\* Result values.
Ret(tag) == [tag |-> tag, value |-> 0, timestamp |-> 0]

OkPoint(v, t) == [tag |-> "Ok", value |-> v, timestamp |-> t]

\* The arguments of a call.
Call(op, s, o, v, cx) == [op |-> op, self |-> s, other |-> o, value |-> v, cx |-> cx]

NoArgs == Call("none", "A", "A", 0, NoTs)

NoPre == [self |-> None, other |-> None]

NoThread == "nobody"

NoRec == [value |-> 0, timestamp |-> NoTs]

VARIABLES
    state,      \* state[c]: Inner.state of aggregator c
    lock,       \* lock[c]: the thread holding c's Mutex, or NoThread
    poisoned,   \* poisoned[c]: c's Mutex is poisoned
    now,        \* the system clock read by opentelemetry_api::time::now()
    pc,         \* pc[th]: where thread th stands in its current call
    args,       \* args[th]: the call thread th is running
    tmp,        \* tmp[th]: the Option moved out by take()
    pre,        \* pre[th]: both slots as they were when th came to hold both locks
    ret,        \* ret[th]: the Result th's call is about to return
    rec,        \* rec[c]: the (value, timestamp) of the update call that was the
                \* last call to lock c for writing, if its Context carried a timestamp
    hist        \* what has happened to the aggregators, kept in the scenarios that ask for it

vars == <<state, lock, poisoned, now, pc, args, tmp, pre, ret, rec, hist>>

\* hist.mode says what is kept: nothing ("off"); or ("cells") since[c], whether
\* an update has completed on c since c was made or last emptied by
\* synchronized_move, and filled[c], whether the last call to write c's slot put
\* a point there; or ("shards") folded, the slots merge has found in other.
NoHist ==
    [mode |-> "off",
     since |-> [c \in Cells |-> "fresh"],
     filled |-> [c \in Cells |-> FALSE],
     folded |-> << >>]

\* A writing call has taken c's lock.
Touch(h, c) ==
    IF h.mode = "cells" /\ h.since[c] = "fresh" THEN [h EXCEPT !.since[c] = "norecord"] ELSE h

\* An update has completed on c.
Recorded(h, c) ==
    IF h.mode = "cells" THEN [h EXCEPT !.since[c] = "recorded", !.filled[c] = TRUE] ELSE h

\* synchronized_move has stored the Option opt into c, or taken c's (opt = None).
Handed(h, c, opt) ==
    IF h.mode = "cells"
    THEN [h EXCEPT !.since[c] = IF opt.some THEN @ ELSE "norecord", !.filled[c] = opt.some]
    ELSE h

\* merge has stored the Option opt into c, or taken c's (opt = None).
Merges(h, c, opt) == IF h.mode = "cells" THEN [h EXCEPT !.filled[c] = opt.some] ELSE h

\* merge has found the Option opt in other.
Folded(h, opt) == IF h.mode = "shards" THEN [h EXCEPT !.folded = Append(@, opt)] ELSE h

\* Every aggregator is taken for a LastValueAggregator.
Downcast_any(o) == TRUE

\* as_any().downcast_ref::<Self>() succeeds on a LastValueAggregator only.
Downcast(o) == o \in Cells

\* A lock that excludes nobody.
CanLock_always(c) == TRUE

\* Mutex::lock blocks until the mutex is free.
CanLock(c) == lock[c] = NoThread

Init ==
    /\ state = [c \in Peers |-> None]
    /\ lock = [c \in Cells |-> NoThread]
    /\ poisoned = [c \in Cells |-> FALSE]
    /\ now = 1
    /\ pc = [th \in Threads |-> "idle"]
    /\ args = [th \in Threads |-> NoArgs]
    /\ tmp = [th \in Threads |-> None]
    /\ pre = [th \in Threads |-> NoPre]
    /\ ret = [th \in Threads |-> Ret("none")]
    /\ rec = [c \in Cells |-> NoRec]
    /\ hist = NoHist

\* The call is over: the thread is free to make its next call.
Return(th) ==
    /\ pc' = [pc EXCEPT ![th] = "idle"]
    /\ args' = [args EXCEPT ![th] = NoArgs]
    /\ tmp' = [tmp EXCEPT ![th] = None]
    /\ pre' = [pre EXCEPT ![th] = NoPre]
    /\ ret' = [ret EXCEPT ![th] = Ret("none")]

\* The call ends in Err(e), holding no lock.
Fail(th, call, e) ==
    /\ pc' = [pc EXCEPT ![th] = "err"]
    /\ args' = [args EXCEPT ![th] = call]
    /\ ret' = [ret EXCEPT ![th] = Ret(e)]
    /\ UNCHANGED <<tmp, pre>>

\* The Err is handed to the caller.
return_err(th) ==
    /\ pc[th] = "err"
    /\ Return(th)
    /\ UNCHANGED <<state, lock, poisoned, now, rec, hist>>

\* The clock advances.
Tick ==
    /\ now < MaxTime
    /\ now' = now + 1
    /\ UNCHANGED <<state, lock, poisoned, pc, args, tmp, pre, ret, rec, hist>>

----
\* update: self.inner.lock()
update_lock(th, c, v, cx) ==
    /\ pc[th] = "idle"
    /\ CanLock(c)
    /\ IF poisoned[c]
       THEN /\ Fail(th, Call("update", c, c, v, cx), "LockFailure")
            /\ UNCHANGED <<state, lock, poisoned, now, rec, hist>>
       ELSE /\ lock' = [lock EXCEPT ![c] = th]
            /\ pc' = [pc EXCEPT ![th] = "up_value"]
            /\ args' = [args EXCEPT ![th] = Call("update", c, c, v, cx)]
            /\ ret' = [ret EXCEPT ![th] = Ret("none")]
            /\ rec' = [rec EXCEPT ![c] = NoRec]
            /\ hist' = Touch(hist, c)
            /\ UNCHANGED <<state, poisoned, now, tmp, pre>>

\* The timestamp of the Context is ignored.
ResolveTimestamp_clock_only(cx, clock) == clock

\* update: the timestamp of the Context, or else the clock
ResolveTimestamp(cx, clock) == IF cx # NoTs THEN cx ELSE clock

\* update: LastValueData { value: number.clone(), timestamp: .. } is built, which
\* reads the clock, and its value is stored
update_value(th) ==
    /\ pc[th] = "up_value"
    /\ tmp' = [tmp EXCEPT ![th] =
          LastValueData(args[th].value, ResolveTimestamp(args[th].cx, now))]
    /\ state' = [state EXCEPT ![args[th].self].value = args[th].value]
    /\ pc' = [pc EXCEPT ![th] = "up_timestamp"]
    /\ UNCHANGED <<lock, poisoned, now, args, pre, ret, rec, hist>>

\* update: its timestamp is stored, which completes inner.state = Some(..)
update_timestamp(th) ==
    /\ pc[th] = "up_timestamp"
    /\ state' = [state EXCEPT ![args[th].self] =
          LastValueData(@.value, tmp[th].timestamp)]
    /\ pc' = [pc EXCEPT ![th] = "up_unlock"]
    /\ UNCHANGED <<lock, poisoned, now, args, tmp, pre, ret, rec, hist>>

\* update: the guard is dropped and Ok(()) returned
update_unlock(th) ==
    /\ pc[th] = "up_unlock"
    /\ lock' = [lock EXCEPT ![args[th].self] = NoThread]
    /\ rec' = [rec EXCEPT ![args[th].self] =
          IF args[th].cx # NoTs
          THEN [value |-> args[th].value, timestamp |-> args[th].cx]
          ELSE NoRec]
    /\ hist' = Recorded(hist, args[th].self)
    /\ Return(th)
    /\ UNCHANGED <<state, poisoned, now>>

----
\* The first half of synchronized_move and merge: downcast, then self.inner.lock()
LockSelf(th, op, s, o, next) ==
    /\ pc[th] = "idle"
    /\ IF ~Downcast(o)
       THEN /\ Fail(th, Call(op, s, o, 0, NoTs), "InconsistentAggregator")
            /\ UNCHANGED <<state, lock, poisoned, now, rec, hist>>
       ELSE /\ CanLock(s)
            /\ IF poisoned[s]
               THEN /\ Fail(th, Call(op, s, o, 0, NoTs), "LockFailure")
                    /\ UNCHANGED <<state, lock, poisoned, now, rec, hist>>
               ELSE /\ lock' = [lock EXCEPT ![s] = th]
                    /\ pc' = [pc EXCEPT ![th] = next]
                    /\ args' = [args EXCEPT ![th] = Call(op, s, o, 0, NoTs)]
                    /\ ret' = [ret EXCEPT ![th] = Ret("none")]
                    /\ rec' = [rec EXCEPT ![s] = NoRec]
                    /\ hist' = Touch(hist, s)
                    /\ UNCHANGED <<state, poisoned, now, tmp, pre>>

\* The second half: other.inner.lock() while the guard of self is held.
LockOther(th, at, next) ==
    /\ pc[th] = at
    /\ args[th].other # args[th].self
    /\ CanLock(args[th].other)
    /\ IF poisoned[args[th].other]
       THEN /\ lock' = [lock EXCEPT ![args[th].self] = NoThread]
            /\ Fail(th, args[th], "LockFailure")
            /\ UNCHANGED <<state, poisoned, now, rec, hist>>
       ELSE /\ lock' = [lock EXCEPT ![args[th].other] = th]
            /\ pc' = [pc EXCEPT ![th] = next]
            /\ pre' = [pre EXCEPT ![th] =
                  [self |-> state[args[th].self], other |-> state[args[th].other]]]
            /\ rec' = [rec EXCEPT ![args[th].other] = NoRec]
            /\ hist' = IF at = "mg_lock_other"
                       THEN Folded(Touch(hist, args[th].other), state[args[th].other])
                       ELSE Touch(hist, args[th].other)
            /\ UNCHANGED <<state, poisoned, now, args, tmp, ret>>

\* other.inner.lock() on the Mutex this thread already holds never returns: it
\* blocks for ever (no step) or panics, and the unwinding drops the guard of
\* self, which poisons the Mutex.
relock_panic(th) ==
    /\ pc[th] \in {"mv_lock_other", "mg_lock_other"}
    /\ args[th].other = args[th].self
    /\ lock' = [lock EXCEPT ![args[th].self] = NoThread]
    /\ poisoned' = [poisoned EXCEPT ![args[th].self] = TRUE]
    /\ pc' = [pc EXCEPT ![th] = "panicked"]
    /\ UNCHANGED <<state, now, args, tmp, pre, ret, rec, hist>>

\* Both guards are dropped and Ok(()) returned.
UnlockBoth(th, at) ==
    /\ pc[th] = at
    /\ lock' = [lock EXCEPT ![args[th].self] = NoThread, ![args[th].other] = NoThread]
    /\ Return(th)
    /\ UNCHANGED <<state, poisoned, now, rec, hist>>

----
synchronized_move_lock_self(th, s, o) ==
    LockSelf(th, "synchronized_move", s, o, "mv_lock_other")

\* The guard of self is given up when the guard of other is taken.
synchronized_move_lock_other_handover(th) ==
    /\ pc[th] = "mv_lock_other"
    /\ args[th].other # args[th].self
    /\ CanLock(args[th].other)
    /\ lock' = [lock EXCEPT ![args[th].other] = th, ![args[th].self] = NoThread]
    /\ pc' = [pc EXCEPT ![th] = "mv_take"]
    /\ pre' = [pre EXCEPT ![th] =
          [self |-> state[args[th].self], other |-> state[args[th].other]]]
    /\ rec' = [rec EXCEPT ![args[th].other] = NoRec]
    /\ hist' = Touch(hist, args[th].other)
    /\ UNCHANGED <<state, poisoned, now, args, tmp, ret>>

synchronized_move_lock_other(th) == LockOther(th, "mv_lock_other", "mv_take")

\* The state of self is cloned, not taken.
synchronized_move_take_clone(th) ==
    /\ pc[th] = "mv_take"
    /\ tmp' = [tmp EXCEPT ![th] = state[args[th].self]]
    /\ pc' = [pc EXCEPT ![th] = "mv_store"]
    /\ hist' = Handed(hist, args[th].self, None)
    /\ UNCHANGED <<state, lock, poisoned, now, args, pre, ret, rec>>

\* synchronized_move: inner.state.take()
synchronized_move_take(th) ==
    /\ pc[th] = "mv_take"
    /\ tmp' = [tmp EXCEPT ![th] = state[args[th].self]]
    /\ state' = [state EXCEPT ![args[th].self] = None]
    /\ pc' = [pc EXCEPT ![th] = "mv_store"]
    /\ hist' = Handed(hist, args[th].self, None)
    /\ UNCHANGED <<lock, poisoned, now, args, pre, ret, rec>>

\* other keeps its state when nothing was taken.
synchronized_move_store_if_some(th) ==
    /\ pc[th] = "mv_store"
    /\ state' = IF tmp[th].some THEN [state EXCEPT ![args[th].other] = tmp[th]] ELSE state
    /\ pc' = [pc EXCEPT ![th] = "mv_unlock"]
    /\ hist' = Handed(hist, args[th].other, tmp[th])
    /\ UNCHANGED <<lock, poisoned, now, args, tmp, pre, ret, rec>>

\* synchronized_move: other.state = ...
synchronized_move_store(th) ==
    /\ pc[th] = "mv_store"
    /\ state' = [state EXCEPT ![args[th].other] = tmp[th]]
    /\ pc' = [pc EXCEPT ![th] = "mv_unlock"]
    /\ hist' = Handed(hist, args[th].other, tmp[th])
    /\ UNCHANGED <<lock, poisoned, now, args, tmp, pre, ret, rec>>

synchronized_move_unlock(th) == UnlockBoth(th, "mv_unlock")

----
merge_lock_self(th, s, o) == LockSelf(th, "merge", s, o, "mg_lock_other")

merge_lock_other(th) == LockOther(th, "mg_lock_other", "mg_match")

\* The older state wins.
Takes_older(checkpoint, other_checkpoint) ==
    \/ checkpoint.some /\ other_checkpoint.some
          /\ other_checkpoint.timestamp < checkpoint.timestamp
    \/ ~checkpoint.some /\ other_checkpoint.some

\* A tie takes other's state.
Takes_on_tie(checkpoint, other_checkpoint) ==
    \/ checkpoint.some /\ other_checkpoint.some
          /\ other_checkpoint.timestamp >= checkpoint.timestamp
    \/ ~checkpoint.some /\ other_checkpoint.some

\* The arm (None, Some(_)) is missing.
Takes_never_into_none(checkpoint, other_checkpoint) ==
    checkpoint.some /\ other_checkpoint.some
        /\ other_checkpoint.timestamp > checkpoint.timestamp

\* other's state is taken whenever it is not older, be it None.
Takes_none(checkpoint, other_checkpoint) ==
    \/ checkpoint.some /\ other_checkpoint.timestamp > checkpoint.timestamp
    \/ checkpoint.some /\ ~other_checkpoint.some
    \/ ~checkpoint.some /\ other_checkpoint.some

\* merge takes whatever point other holds: the last merged wins.
Takes_any_point(checkpoint, other_checkpoint) == other_checkpoint.some

\* merge: the arms of the match that take other's state
Takes(checkpoint, other_checkpoint) ==
    \/ checkpoint.some /\ other_checkpoint.some
          /\ other_checkpoint.timestamp > checkpoint.timestamp
    \/ ~checkpoint.some /\ other_checkpoint.some

\* The taking arms clone other's state and leave it in place.
merge_match_clone(th) ==
    /\ pc[th] = "mg_match"
    /\ IF Takes(state[args[th].self], state[args[th].other])
       THEN /\ tmp' = [tmp EXCEPT ![th] = state[args[th].other]]
            /\ pc' = [pc EXCEPT ![th] = "mg_assign"]
            /\ hist' = Merges(hist, args[th].other, None)
            /\ UNCHANGED state
       ELSE /\ pc' = [pc EXCEPT ![th] = "mg_unlock"]
            /\ UNCHANGED <<state, tmp, hist>>
    /\ UNCHANGED <<lock, poisoned, now, args, pre, ret, rec>>

\* merge: match (&inner.state, &other.state), and other.state.take() in a taking arm
merge_match(th) ==
    /\ pc[th] = "mg_match"
    /\ IF Takes(state[args[th].self], state[args[th].other])
       THEN /\ tmp' = [tmp EXCEPT ![th] = state[args[th].other]]
            /\ state' = [state EXCEPT ![args[th].other] = None]
            /\ pc' = [pc EXCEPT ![th] = "mg_assign"]
            /\ hist' = Merges(hist, args[th].other, None)
       ELSE /\ pc' = [pc EXCEPT ![th] = "mg_unlock"]
            /\ UNCHANGED <<state, tmp, hist>>
    /\ UNCHANGED <<lock, poisoned, now, args, pre, ret, rec>>

\* The Option taken from other is dropped.
merge_assign_dropped(th) ==
    /\ pc[th] = "mg_assign"
    /\ pc' = [pc EXCEPT ![th] = "mg_unlock"]
    /\ hist' = Merges(hist, args[th].self, tmp[th])
    /\ UNCHANGED <<state, lock, poisoned, now, args, tmp, pre, ret, rec>>

\* merge: inner.state = ...
merge_assign(th) ==
    /\ pc[th] = "mg_assign"
    /\ state' = [state EXCEPT ![args[th].self] = tmp[th]]
    /\ pc' = [pc EXCEPT ![th] = "mg_unlock"]
    /\ hist' = Merges(hist, args[th].self, tmp[th])
    /\ UNCHANGED <<lock, poisoned, now, args, tmp, pre, ret, rec>>

merge_unlock(th) == UnlockBoth(th, "mg_unlock")

----
\* A poisoned Mutex is read as an empty slot.
last_value_lock_defaulting(th, c) ==
    /\ pc[th] = "idle"
    /\ CanLock(c)
    /\ IF poisoned[c]
       THEN /\ Fail(th, Call("last_value", c, c, 0, NoTs), "NoDataCollected")
            /\ UNCHANGED <<state, lock, poisoned, now, rec, hist>>
       ELSE /\ lock' = [lock EXCEPT ![c] = th]
            /\ pc' = [pc EXCEPT ![th] = "lv_read"]
            /\ args' = [args EXCEPT ![th] = Call("last_value", c, c, 0, NoTs)]
            /\ ret' = [ret EXCEPT ![th] = Ret("none")]
            /\ UNCHANGED <<state, poisoned, now, tmp, pre, rec, hist>>

\* last_value: self.inner.lock()
last_value_lock(th, c) ==
    /\ pc[th] = "idle"
    /\ CanLock(c)
    /\ IF poisoned[c]
       THEN /\ Fail(th, Call("last_value", c, c, 0, NoTs), "LockFailure")
            /\ UNCHANGED <<state, lock, poisoned, now, rec, hist>>
       ELSE /\ lock' = [lock EXCEPT ![c] = th]
            /\ pc' = [pc EXCEPT ![th] = "lv_read"]
            /\ args' = [args EXCEPT ![th] = Call("last_value", c, c, 0, NoTs)]
            /\ ret' = [ret EXCEPT ![th] = Ret("none")]
            /\ UNCHANGED <<state, poisoned, now, tmp, pre, rec, hist>>

\* An empty slot is read as the default point.
Checkpoint_default(slot) == OkPoint(slot.value, slot.timestamp)

\* last_value: the Result computed from inner.state
Checkpoint(slot) ==
    IF slot.some THEN OkPoint(slot.value, slot.timestamp) ELSE Ret("NoDataCollected")

\* The checkpoint is taken out of the slot.
last_value_read_take(th) ==
    /\ pc[th] = "lv_read"
    /\ ret' = [ret EXCEPT ![th] = Checkpoint(state[args[th].self])]
    /\ state' = [state EXCEPT ![args[th].self] = None]
    /\ pc' = [pc EXCEPT ![th] = "lv_unlock"]
    /\ UNCHANGED <<lock, poisoned, now, args, tmp, pre, rec, hist>>

\* last_value: the closure computes the Result
last_value_read(th) ==
    /\ pc[th] = "lv_read"
    /\ ret' = [ret EXCEPT ![th] = Checkpoint(state[args[th].self])]
    /\ pc' = [pc EXCEPT ![th] = "lv_unlock"]
    /\ UNCHANGED <<state, lock, poisoned, now, args, tmp, pre, rec, hist>>

\* last_value: the guard is dropped and the Result returned
last_value_unlock(th) ==
    /\ pc[th] = "lv_unlock"
    /\ lock' = [lock EXCEPT ![args[th].self] = NoThread]
    /\ Return(th)
    /\ UNCHANGED <<state, poisoned, now, rec, hist>>

----
Next ==
    \/ Tick
    \/ \E th \in Threads, c \in Cells, v \in Values, cx \in {NoTs} \cup Timestamps :
          update_lock(th, c, v, cx)
    \/ \E th \in Threads : update_value(th)
    \/ \E th \in Threads : update_timestamp(th)
    \/ \E th \in Threads : update_unlock(th)
    \/ \E th \in Threads, s \in Cells, o \in Peers : synchronized_move_lock_self(th, s, o)
    \/ \E th \in Threads : synchronized_move_lock_other(th)
    \/ \E th \in Threads : synchronized_move_take(th)
    \/ \E th \in Threads : synchronized_move_store(th)
    \/ \E th \in Threads : synchronized_move_unlock(th)
    \/ \E th \in Threads, s \in Cells, o \in Peers : merge_lock_self(th, s, o)
    \/ \E th \in Threads : merge_lock_other(th)
    \/ \E th \in Threads : merge_match(th)
    \/ \E th \in Threads : merge_assign(th)
    \/ \E th \in Threads : merge_unlock(th)
    \/ \E th \in Threads, c \in Cells : last_value_lock(th, c)
    \/ \E th \in Threads : last_value_read(th)
    \/ \E th \in Threads : last_value_unlock(th)
    \/ \E th \in Threads : relock_panic(th)
    \/ \E th \in Threads : return_err(th)

Spec == Init /\ [][Next]_vars

----
\* The scenario of concurrent writers: thread th only ever records RecordOf[th],
\* on either aggregator, and any thread may read.
RecordOf ==
    [th \in Threads |->
        IF th = "t1" THEN [value |-> 1, timestamp |-> 2] ELSE [value |-> 2, timestamp |-> 1]]

NextRecords ==
    \/ \E th \in Threads, c \in Cells :
          update_lock(th, c, RecordOf[th].value, RecordOf[th].timestamp)
    \/ \E th \in Threads : update_value(th)
    \/ \E th \in Threads : update_timestamp(th)
    \/ \E th \in Threads : update_unlock(th)
    \/ \E th \in Threads, c \in Cells : last_value_lock(th, c)
    \/ \E th \in Threads : last_value_read(th)
    \/ \E th \in Threads : last_value_unlock(th)

SpecRecords == Init /\ [][NextRecords]_vars

----
\* The same program, with the history of each aggregator kept: whether an update
\* has completed on it, and whether the last write of its slot put a point there.
InitHist ==
    /\ state = [c \in Peers |-> None]
    /\ lock = [c \in Cells |-> NoThread]
    /\ poisoned = [c \in Cells |-> FALSE]
    /\ now = 1
    /\ pc = [th \in Threads |-> "idle"]
    /\ args = [th \in Threads |-> NoArgs]
    /\ tmp = [th \in Threads |-> None]
    /\ pre = [th \in Threads |-> NoPre]
    /\ ret = [th \in Threads |-> Ret("none")]
    /\ rec = [c \in Cells |-> NoRec]
    /\ hist = [NoHist EXCEPT !.mode = "cells"]

SpecHist == InitHist /\ [][Next]_vars

----
\* last_value(): a new aggregator, with an empty slot and a free Mutex, takes
\* the place of c.
last_value_new(c) ==
    /\ \A th \in Threads : pc[th] = "idle"
    /\ state' = [state EXCEPT ![c] = None]
    /\ lock' = [lock EXCEPT ![c] = NoThread]
    /\ poisoned' = [poisoned EXCEPT ![c] = FALSE]
    /\ rec' = [rec EXCEPT ![c] = NoRec]
    /\ UNCHANGED <<now, pc, args, tmp, pre, ret, hist>>

\* The scenario of a collection cycle: one thread merges shard after shard into
\* the aggregator Cycle, which starts empty and on which nothing is recorded. The
\* aggregator Shard stands for each shard in turn: it is made anew, or recorded
\* on with a timestamp in the Context, between two merges.
Cycle == "A"

Shard == "B"

Collector == "t1"

InitShards ==
    /\ state = [c \in Peers |-> None]
    /\ lock = [c \in Cells |-> NoThread]
    /\ poisoned = [c \in Cells |-> FALSE]
    /\ now = 1
    /\ pc = [th \in Threads |-> "idle"]
    /\ args = [th \in Threads |-> NoArgs]
    /\ tmp = [th \in Threads |-> None]
    /\ pre = [th \in Threads |-> NoPre]
    /\ ret = [th \in Threads |-> Ret("none")]
    /\ rec = [c \in Cells |-> NoRec]
    /\ hist = [NoHist EXCEPT !.mode = "shards"]

NextShards ==
    \/ last_value_new(Shard)
    \/ \E v \in Values, cx \in Timestamps : update_lock(Collector, Shard, v, cx)
    \/ update_value(Collector)
    \/ update_timestamp(Collector)
    \/ update_unlock(Collector)
    \/ Len(hist.folded) < MaxShards /\ merge_lock_self(Collector, Cycle, Shard)
    \/ merge_lock_other(Collector)
    \/ merge_match(Collector)
    \/ merge_assign(Collector)
    \/ merge_unlock(Collector)

SpecShards == InitShards /\ [][NextShards]_vars

\* The scenario of clock-stamped records: no Context carries a timestamp.
NextClock ==
    \/ Tick
    \/ \E th \in Threads, c \in Cells, v \in Values : update_lock(th, c, v, NoTs)
    \/ \E th \in Threads : update_value(th)
    \/ \E th \in Threads : update_timestamp(th)
    \/ \E th \in Threads : update_unlock(th)

SpecClock == Init /\ [][NextClock]_vars

----
\* Thread th has run synchronized_move up to the drop of its guards.
Moved(th) == pc[th] = "mv_unlock"

\* Thread th has run merge up to the drop of its guards.
Merged(th) == pc[th] = "mg_unlock"

\* C1: update with the timestamp t in its Context and the value v, followed by
\* last_value on the same aggregator with no other call locking that aggregator
\* for writing in between, returns Ok((v, t)), whatever the slot held before.
C1_RecordThenRead ==
    \A th \in Threads :
        (pc[th] = "lv_unlock" /\ rec[args[th].self] # NoRec)
            => ret[th] = OkPoint(rec[args[th].self].value, rec[args[th].self].timestamp)

C1_Witness ==
    \E th \in Threads :
        /\ pc[th] = "lv_unlock"
        /\ rec[args[th].self] # NoRec
        /\ rec[args[th].self].timestamp < now
        /\ ret[th].tag = "Ok"

\* C2: while one thread runs merge or synchronized_move from A into B and another
\* from B into A, the two never come to wait for each other's lock for ever.
C2_NoDeadlock ==
    \A t1, t2 \in Threads :
        ~ /\ t1 # t2
          /\ pc[t1] \in {"mv_lock_other", "mg_lock_other"}
          /\ pc[t2] \in {"mv_lock_other", "mg_lock_other"}
          /\ args[t1].self = args[t2].other
          /\ args[t2].self = args[t1].other
          /\ lock[args[t1].other] = t2
          /\ lock[args[t2].other] = t1

\* C3, as claimed: synchronized_move from an aggregator holding None leaves the
\* other aggregator's slot as it was.
C3_EmptySourceKeepsDestination ==
    \A th \in Threads :
        (Moved(th) /\ ~pre[th].self.some) => state[args[th].other] = pre[th].other

\* C3, amended: synchronized_move from an aggregator holding None leaves both
\* slots None: what the other aggregator held is dropped.
C3_EmptySourceClearsDestination ==
    \A th \in Threads :
        (Moved(th) /\ ~pre[th].self.some)
            => state[args[th].other] = None /\ state[args[th].self] = None

C3_Witness ==
    \E th \in Threads : Moved(th) /\ ~pre[th].self.some /\ pre[th].other.some

\* C4: synchronized_move from an aggregator holding Some(p) into another one
\* leaves the other holding Some(p), whatever it held, and the source None.
C4_HandoffMoves ==
    \A th \in Threads :
        (Moved(th) /\ pre[th].self.some)
            => state[args[th].other] = pre[th].self /\ state[args[th].self] = None

C4_Witness ==
    \E th \in Threads :
        /\ Moved(th)
        /\ pre[th].self.some
        /\ pre[th].other.some
        /\ pre[th].other.timestamp > pre[th].self.timestamp
        /\ pre[th].other.value # pre[th].self.value

\* C5: merge with both slots Some and other's timestamp strictly greater leaves
\* self holding other's former point and other None.
C5_NewerSourceWins ==
    \A th \in Threads :
        (/\ Merged(th)
         /\ pre[th].self.some
         /\ pre[th].other.some
         /\ pre[th].other.timestamp > pre[th].self.timestamp)
            => state[args[th].self] = pre[th].other /\ state[args[th].other] = None

C5_Witness ==
    \E th \in Threads :
        /\ Merged(th)
        /\ pre[th].self.some
        /\ pre[th].other.some
        /\ pre[th].other.timestamp > pre[th].self.timestamp
        /\ pre[th].other.value # pre[th].self.value

\* C6: merge with both slots Some and other's timestamp less than or equal to
\* self's leaves both slots as they were.
C6_OlderOrTiedSourceKept ==
    \A th \in Threads :
        (/\ Merged(th)
         /\ pre[th].self.some
         /\ pre[th].other.some
         /\ pre[th].other.timestamp <= pre[th].self.timestamp)
            => state[args[th].self] = pre[th].self /\ state[args[th].other] = pre[th].other

C6_Witness ==
    \E th \in Threads :
        /\ Merged(th)
        /\ pre[th].self.some
        /\ pre[th].other.some
        /\ pre[th].other.timestamp = pre[th].self.timestamp
        /\ pre[th].other.value # pre[th].self.value

\* C7: merge with self None and other Some(p) leaves self holding Some(p) and
\* other None.
C7_EmptySelfTakes ==
    \A th \in Threads :
        (Merged(th) /\ ~pre[th].self.some /\ pre[th].other.some)
            => state[args[th].self] = pre[th].other /\ state[args[th].other] = None

C7_Witness ==
    \E th \in Threads : Merged(th) /\ ~pre[th].self.some /\ pre[th].other.some

\* C8: merge with other None leaves both slots as they were; with both None,
\* last_value on either still gives NoDataCollected.
C8_EmptySourceChangesNothing ==
    \A th \in Threads :
        (Merged(th) /\ ~pre[th].other.some)
            => /\ state[args[th].self] = pre[th].self
               /\ state[args[th].other] = pre[th].other
               /\ ~pre[th].self.some =>
                     /\ Checkpoint(state[args[th].self]) = Ret("NoDataCollected")
                     /\ Checkpoint(state[args[th].other]) = Ret("NoDataCollected")

C8_Witness ==
    \E th \in Threads : Merged(th) /\ ~pre[th].other.some /\ pre[th].self.some

\* C9: with the threads recording their own distinct (value, timestamp) pairs
\* concurrently, every last_value that returns Ok returns the pair of one of
\* them, never the value of one with the timestamp of another.
C9_NoMixture ==
    \A th \in Threads :
        (pc[th] = "lv_unlock" /\ ret[th].tag = "Ok")
            => \E w \in Threads :
                  ret[th] = OkPoint(RecordOf[w].value, RecordOf[w].timestamp)

C9_Witness ==
    \E th, w \in Threads :
        /\ th # w
        /\ pc[th] = "lv_unlock"
        /\ ret[th] = OkPoint(RecordOf[w].value, RecordOf[w].timestamp)
        /\ pc[w] \in {"up_value", "up_timestamp"}

\* C10: once synchronized_move has taken the point out of self, self no longer
\* shows it, and as long as other does not show it yet the moving thread holds
\* both locks, so that no other call can see the point in neither or in both.
C10_HandoffAtomic ==
    \A th \in Threads :
        (pc[th] \in {"mv_store", "mv_unlock"} /\ pre[th].self.some)
            => /\ state[args[th].self] = None
               /\ state[args[th].other] # pre[th].self
                     => lock[args[th].self] = th /\ lock[args[th].other] = th

C10_Witness ==
    \E th \in Threads :
        /\ pc[th] = "mv_store"
        /\ tmp[th].some
        /\ state[args[th].self] = None
        /\ state[args[th].other].some
        /\ state[args[th].other] # tmp[th]

\* Thread th takes a step.
Steps(th) == pc'[th] # pc[th]

\* Thread th stands at other.inner.lock(), holding the guard of self.
AtLockOther(th) == pc[th] \in {"mv_lock_other", "mg_lock_other"}

\* C11: merge or synchronized_move called with an aggregator of another kind
\* ends in Err(InconsistentAggregator), and the call changes no slot.
C11_InconsistentAggregator ==
    [][\A th \in Threads :
          (/\ pc[th] = "idle"
           /\ Steps(th)
           /\ args'[th].op \in {"merge", "synchronized_move"}
           /\ args'[th].other = Foreign)
              => /\ pc'[th] = "err"
                 /\ ret'[th] = Ret("InconsistentAggregator")
                 /\ state' = state]_vars

C11_Witness ==
    \E th \in Threads :
        /\ pc[th] = "err"
        /\ ret[th] = Ret("InconsistentAggregator")
        /\ args[th].other = Foreign
        /\ state[args[th].self].some

\* C12, as claimed: last_value returns Err(NoDataCollected) exactly when no update
\* has completed on the aggregator since it was made or last emptied by
\* synchronized_move.
C12_NoDataIffNoRecord ==
    \A th \in Threads :
        pc[th] = "lv_unlock"
            => (ret[th] = Ret("NoDataCollected") <=> hist.since[args[th].self] # "recorded")

\* C12, amended: last_value returns Err(NoDataCollected) exactly when the slot is
\* empty: when no call has written the slot, or the last call to write it, be it
\* update, synchronized_move or merge, left no point there.
C12_NoDataIffNotFilled ==
    \A th \in Threads :
        pc[th] = "lv_unlock"
            => (ret[th] = Ret("NoDataCollected") <=> ~hist.filled[args[th].self])

C12_Witness ==
    \E th \in Threads :
        /\ pc[th] = "lv_unlock"
        /\ ret[th].tag = "Ok"
        /\ hist.since[args[th].self] = "norecord"

\* C13: no step of last_value changes a slot.
C13_ReadChangesNothing ==
    [][\A th \in Threads :
          (Steps(th) /\ (args[th].op = "last_value" \/ args'[th].op = "last_value"))
              => state' = state]_vars

C13_Witness ==
    \E th \in Threads :
        /\ pc[th] = "lv_unlock"
        /\ ret[th].tag = "Ok"
        /\ state[args[th].self].some

\* C14: last_value on an aggregator that no update, merge or synchronized_move
\* has locked since it was made returns Err(NoDataCollected).
C14_FreshHasNoData ==
    \A th \in Threads :
        (pc[th] = "lv_unlock" /\ hist.since[args[th].self] = "fresh")
            => ret[th] = Ret("NoDataCollected")

C14_Witness ==
    \E th \in Threads :
        /\ pc[th] = "lv_unlock"
        /\ hist.since[args[th].self] = "fresh"
        /\ \E c \in Cells : hist.since[c] = "recorded"

\* Thread th takes the step in which its call comes upon the poisoned Mutex of
\* self (the first lock of the call) or of other (the second lock).
MeetsPoison(th) ==
    /\ Steps(th)
    /\ \/ pc[th] = "idle" /\ pc'[th] # "idle" /\ poisoned[args'[th].self]
       \/ AtLockOther(th) /\ args[th].other # args[th].self /\ poisoned[args[th].other]

\* C15, as claimed: a call on an aggregator whose Mutex is poisoned ends in the
\* lock failure, and the call changes no slot.
C15_PoisonGivesLockFailure ==
    [][\A th \in Threads :
          MeetsPoison(th)
              => /\ pc'[th] = "err"
                 /\ ret'[th] = Ret("LockFailure")
                 /\ state' = state]_vars

\* C15, amended: such a call changes no slot and ends in an Err: the lock
\* failure, unless other is of another kind, which gives InconsistentAggregator
\* before any lock is taken.
C15_PoisonGivesErr ==
    [][\A th \in Threads :
          MeetsPoison(th)
              => /\ pc'[th] = "err"
                 /\ ret'[th] = IF Downcast(args'[th].other)
                               THEN Ret("LockFailure")
                               ELSE Ret("InconsistentAggregator")
                 /\ state' = state]_vars

C15_Witness ==
    \E th \in Threads :
        /\ pc[th] = "err"
        /\ ret[th] = Ret("LockFailure")
        /\ args[th].op \in {"merge", "synchronized_move"}
        /\ args[th].other \in Cells
        /\ poisoned[args[th].other]
        /\ ~poisoned[args[th].self]
        /\ state[args[th].self].some

\* The total orders of the aggregators.
Rankings ==
    {r \in [Cells -> 1..Cardinality(Cells)] : \A a, b \in Cells : a # b => r[a] # r[b]}

\* C16: there is an order of the aggregators in which no thread stands at the
\* lock of a lower aggregator while holding the lock of a higher one.
C16_LockOrder ==
    \E r \in Rankings :
        \A th \in Threads : AtLockOther(th) => r[args[th].self] <= r[args[th].other]

\* C18: a thread alone in a merge or synchronized_move is never stopped: it has
\* not panicked, and the lock it stands at is free.
C18_SingleCallReturns ==
    \A th \in Threads :
        (\A w \in Threads \ {th} : pc[w] = "idle")
            => /\ pc[th] # "panicked"
               /\ AtLockOther(th) => CanLock(args[th].other)

\* The indices of the merged shards that held a point.
Held(folded) == {i \in 1..Len(folded) : folded[i].some}

\* The point with the greatest timestamp among those the merged shards held, the
\* first merged of them if several have it; None if no shard held a point.
Newest(folded) ==
    IF Held(folded) = {}
    THEN None
    ELSE folded[CHOOSE i \in Held(folded) :
            \A j \in Held(folded) :
                \/ folded[j].timestamp < folded[i].timestamp
                \/ folded[j].timestamp = folded[i].timestamp /\ i <= j]

\* C17: between the merges of a collection cycle, the cycle's aggregator holds
\* the point with the greatest timestamp among those the merged shards held, the
\* first merged of them on a tie, and is empty only if every shard was.
C17_FoldKeepsNewest ==
    pc[Collector] \notin {"mg_match", "mg_assign"} => state[Cycle] = Newest(hist.folded)

C17_Witness ==
    /\ pc[Collector] = "mg_unlock"
    /\ Len(hist.folded) >= 3
    /\ \E i, j, k \in Held(hist.folded) :
          /\ i < j
          /\ hist.folded[i].timestamp = hist.folded[j].timestamp
          /\ hist.folded[i].value # hist.folded[j].value
          /\ hist.folded[k].timestamp < hist.folded[i].timestamp
          /\ state[Cycle] = hist.folded[i]

\* The points held: by the slots, but for one whose update is half stored, and by
\* the Options taken out of a slot and not yet stored.
Points ==
    {state[c] : c \in {c \in Cells :
        /\ state[c].some
        /\ ~\E th \in Threads : pc[th] = "up_timestamp" /\ args[th].self = c}}
    \cup {tmp[th] : th \in {th \in Threads :
        pc[th] \in {"mv_store", "mg_assign"} /\ tmp[th].some}}

\* The number of places that hold the point p.
Copies(p) ==
    Cardinality({c \in Cells :
        /\ state[c] = p
        /\ ~\E th \in Threads : pc[th] = "up_timestamp" /\ args[th].self = c})
    + Cardinality({th \in Threads : pc[th] \in {"mv_store", "mg_assign"} /\ tmp[th] = p})

\* Some update completes its store of the point p in this step.
Writes(p) ==
    \E th \in Threads :
        /\ pc[th] = "up_timestamp"
        /\ pc'[th] = "up_unlock"
        /\ p.value = args[th].value
        /\ args[th].cx # NoTs => p.timestamp = args[th].cx

\* C19: no step adds a copy of a point held after it, but the step in which an update
\* completes its store of that point, which adds one: merge and
\* synchronized_move move points, and neither copy nor make them.
C19_PointsOnlyMove ==
    [][\A p \in Points' :
          Copies(p)' <= Copies(p) + (IF Writes(p) THEN 1 ELSE 0)]_vars

C19_Witness ==
    \E th \in Threads :
        /\ pc[th] = "mg_assign"
        /\ tmp[th].some
        /\ state[args[th].self].some
        /\ Copies(tmp[th]) = 1

\* C20: when no update carries a timestamp in its Context, no write of a slot
\* replaces a timestamp by an earlier one, however the updates of the threads
\* interleave.
C20_ClockStampsNeverGoBack ==
    [][\A c \in Cells :
          (state[c].some /\ state'[c].some)
              => state'[c].timestamp >= state[c].timestamp]_vars

C20_Witness ==
    \E th \in Threads :
        /\ pc[th] = "up_timestamp"
        /\ state[args[th].self].some
        /\ state[args[th].self].timestamp < tmp[th].timestamp

====
